---- MODULE Spec2Model ----
(***************************************************************************)
(* Model of src/fuzz/afl.c: the AFL++ persistent-mode harness of superhtml.*)
(*                                                                         *)
(*   22   __AFL_INIT();                                                    *)
(*   23   unsigned char *buf = __AFL_FUZZ_TESTCASE_BUF;                    *)
(*   25   while (__AFL_LOOP(UINT_MAX)) {                                   *)
(*   26     int len = __AFL_FUZZ_TESTCASE_LEN;                             *)
(*   27     zig_fuzz_test_astgen(buf, len);                                *)
(*   28   }                                                                *)
(*   30   return 0;                                                        *)
(*                                                                         *)
(* main is one sequential process; pc is its position.  The fuzz engine    *)
(* (the AFL runtime behind the __AFL_* macros) and the test subject        *)
(* (zig_fuzz_test_astgen, implemented outside this file) are the           *)
(* environment: the engine chooses the buffer address, the test case and   *)
(* the answer of every loop query; the subject returns or aborts.          *)
(*                                                                         *)
(* The model checker's integers are 32-bit signed, so an unsigned 32-bit   *)
(* value is kept as its two 16-bit halves [hi, lo], an int as an integer   *)
(* in -2^31 .. 2^31-1, and a 64-bit ssize_t as its two 32-bit words        *)
(* [hi, lo]: hi a signed word, lo an unsigned one.                         *)
(***************************************************************************)
EXTENDS Integers, FiniteSets, Sequences, TLC

\* ------------------------------------------------------------------ bounds
\* Number of iterations the engine grants at most in one run of the model.
MaxIter == 3
\* Number of leading cells of the shared buffer whose contents are modelled.
BufCells == 2
\* Number of addresses at which the runtime may map the shared buffer.
MaxAddr == 2

\* ------------------------------------------------------------ machine words
Half == 2^16

IntMax == (2^30 - 1) + 2^30

\* The unsigned 32-bit value hi * 2^16 + lo.
MkU32(h, l) == [hi |-> h, lo |-> l]

\* A natural number below 2^31 as an unsigned 32-bit value.
U32OfNat(n) == MkU32(n \div Half, n % Half)

U32Less(a, b) == a.hi < b.hi \/ (a.hi = b.hi /\ a.lo < b.lo)

\* limits.h's UINT_MAX, the iteration budget handed to __AFL_LOOP.
UINT_MAX == MkU32(Half - 1, Half - 1)

\* The values of an unsigned char that the engine writes in this model.
Bytes == {0, 255}

Cells == 0..(BufCells - 1)

NullAddr == 0

Addrs == 1..MaxAddr

\* The lengths the engine reports in this model: the short ones, the spec's
\* 4096 and its successor, and the values around the sign bit of an int.
TestcaseLens ==
    {U32OfNat(n) : n \in 0..BufCells}
        \cup {U32OfNat(4096), U32OfNat(4097), U32OfNat(IntMax),
              MkU32(Half \div 2, 0), MkU32(Half - 1, Half - 1)}

\* `int len = <unsigned 32-bit value>`: the conversion keeps the 32 bits, so
\* a value with the top bit set becomes the value minus 2^32.
IntOfU32Sat(u) == IF u.hi >= Half \div 2 THEN IntMax ELSE u.hi * Half + u.lo

IntOfU32(u) ==
    IF u.hi >= Half \div 2 THEN (u.hi - Half) * Half + u.lo
    ELSE u.hi * Half + u.lo

\* The 32 bits of an int, read as an unsigned value.
BitsOfInt(i) == IF i < 0 THEN MkU32((i \div Half) + Half, i % Half)
                ELSE MkU32(i \div Half, i % Half)

\* Passing an int where the prototype says ssize_t: sign extension to 64 bits.
SsizeOfInt(i) == [hi |-> IF i < 0 THEN -1 ELSE 0, lo |-> BitsOfInt(i)]

SsizeNegative(s) == s.hi < 0

\* The ssize_t whose value is the unsigned 32-bit value u.
SsizeOfU32(u) == [hi |-> 0, lo |-> u]

NoArg == [fn |-> "none"]

NoGrant == [len |-> MkU32(0, 0), bytes |-> [c \in Cells |-> 0]]

\* ------------------------------------------------------------------- state
VARIABLES
    pc,            \* main's position
    buf,           \* main's local: unsigned char *buf
    len,           \* main's local: int len (the slot keeps its last value)
    retval,        \* main's return value, -1 while main has not returned
    afl_fuzz_ptr,  \* runtime: address of the shared test-case buffer
    afl_fuzz_len,  \* runtime: the engine-reported length, unsigned 32-bit
    shm,           \* contents of the shared buffer's leading cells
    answer,        \* the last answer of __AFL_LOOP: "none", "true", "false"
    inits,         \* number of __AFL_INIT handshakes done
    queries,       \* number of __AFL_LOOP queries started
    granted,       \* number of true answers of __AFL_LOOP
    bufReads,      \* number of reads of __AFL_FUZZ_TESTCASE_BUF
    lenReads,      \* number of reads of __AFL_FUZZ_TESTCASE_LEN
    astgenCalls,   \* number of invocations of zig_fuzz_test_astgen
    directCalls,   \* number of invocations of zig_fuzz_test_direct
    active,        \* number of test-subject invocations in progress
    arg,           \* what the invocation in progress received
    grant          \* what the engine supplied for the current iteration

vars == <<pc, buf, len, retval, afl_fuzz_ptr, afl_fuzz_len, shm, answer,
          inits, queries, granted, bufReads, lenReads, astgenCalls,
          directCalls, active, arg, grant>>

mainVars == <<buf, len, retval>>

engineVars == <<afl_fuzz_ptr, afl_fuzz_len, shm, answer, grant>>

countVars == <<inits, queries, granted, bufReads, lenReads, astgenCalls,
               directCalls>>

Init ==
    /\ pc = "init"
    /\ buf = NullAddr
    /\ len = 0
    /\ retval = -1
    /\ afl_fuzz_ptr = NullAddr
    /\ afl_fuzz_len = MkU32(0, 0)
    /\ shm = [c \in Cells |-> 0]
    /\ answer = "none"
    /\ inits = 0
    /\ queries = 0
    /\ granted = 0
    /\ bufReads = 0
    /\ lenReads = 0
    /\ astgenCalls = 0
    /\ directCalls = 0
    /\ active = 0
    /\ arg = NoArg
    /\ grant = NoGrant

\* ----------------------------------------------------------------- actions
\* Lines 22 and 23 in the wrong order: the address is read before the handshake.
AflInitAfterBuf ==
    /\ pc = "init"
    /\ pc' = "loop"
    /\ buf' = afl_fuzz_ptr
    /\ bufReads' = bufReads + 1
    /\ inits' = inits + 1
    /\ \E a \in Addrs : afl_fuzz_ptr' = a
    /\ UNCHANGED <<len, retval, afl_fuzz_len, shm, answer, grant, queries,
                   granted, lenReads, astgenCalls, directCalls, active, arg>>

\* line 22: the handshake with the engine; the runtime maps the shared buffer.
AflInit ==
    /\ pc = "init"
    /\ pc' = "getbuf"
    /\ inits' = inits + 1
    /\ \E a \in Addrs : afl_fuzz_ptr' = a
    /\ UNCHANGED <<mainVars, afl_fuzz_len, shm, answer, grant, queries,
                   granted, bufReads, lenReads, astgenCalls, directCalls,
                   active, arg>>

\* line 23: buf = __AFL_FUZZ_TESTCASE_BUF.
GetBuf ==
    /\ pc = "getbuf"
    /\ pc' = "loop"
    /\ buf' = afl_fuzz_ptr
    /\ bufReads' = bufReads + 1
    /\ UNCHANGED <<len, retval, engineVars, inits, queries, granted,
                   lenReads, astgenCalls, directCalls, active, arg>>

\* line 25: main enters __AFL_LOOP and waits for the engine.
AflLoopEnter ==
    /\ pc = "loop"
    /\ pc' = "in_loop"
    /\ queries' = queries + 1
    /\ UNCHANGED <<mainVars, engineVars, inits, granted, bufReads, lenReads,
                   astgenCalls, directCalls, active, arg>>

\* line 25: the engine grants an iteration: it has written the next test case
\* and its length, and __AFL_LOOP answers true.
AflLoopTrue ==
    /\ pc = "in_loop"
    /\ granted < MaxIter
    /\ U32Less(U32OfNat(granted), UINT_MAX)
    /\ pc' = "test"
    /\ answer' = "true"
    /\ granted' = granted + 1
    /\ \E b \in [Cells -> Bytes], l \in TestcaseLens :
          /\ shm' = b
          /\ afl_fuzz_len' = l
          /\ grant' = [len |-> l, bytes |-> b]
    /\ UNCHANGED <<mainVars, afl_fuzz_ptr, inits, queries, bufReads,
                   lenReads, astgenCalls, directCalls, active, arg>>

\* line 25: the engine's budget is exhausted: __AFL_LOOP answers false.
AflLoopFalse ==
    /\ pc = "in_loop"
    /\ pc' = "test"
    /\ answer' = "false"
    /\ UNCHANGED <<mainVars, afl_fuzz_ptr, afl_fuzz_len, shm, grant,
                   countVars, active, arg>>

\* The handshake repeated at the top of the loop body.
WhileEnterReinit ==
    /\ pc = "test"
    /\ answer = "true"
    /\ pc' = "readlen"
    /\ inits' = inits + 1
    /\ UNCHANGED <<mainVars, engineVars, queries, granted, bufReads,
                   lenReads, astgenCalls, directCalls, active, arg>>

\* A budget of the harness's own: it leaves the loop after the first
\* iteration although the engine answers true.
WhileEnterOwnBudget ==
    /\ pc = "test"
    /\ answer = "true"
    /\ pc' = IF granted > 1 THEN "ret" ELSE "readlen"
    /\ UNCHANGED <<mainVars, engineVars, countVars, active, arg>>

\* line 25: the while condition is true: main enters the body.
WhileEnter ==
    /\ pc = "test"
    /\ answer = "true"
    /\ pc' = "readlen"
    /\ UNCHANGED <<mainVars, engineVars, countVars, active, arg>>

\* A do-while: the body runs once more after the engine answered false.
WhileExitIntoBody ==
    /\ pc = "test"
    /\ answer = "false"
    /\ pc' = IF lenReads < granted + 1 THEN "readlen" ELSE "ret"
    /\ UNCHANGED <<mainVars, engineVars, countVars, active, arg>>

\* line 25: the while condition is false: main leaves the loop.
WhileExit ==
    /\ pc = "test"
    /\ answer = "false"
    /\ pc' = "ret"
    /\ UNCHANGED <<mainVars, engineVars, countVars, active, arg>>

\* The length read hoisted out of the loop: only the first iteration reads it.
ReadLenHoisted ==
    /\ pc = "readlen"
    /\ pc' = "call"
    /\ len' = IF lenReads = 0 THEN IntOfU32(afl_fuzz_len) ELSE len
    /\ lenReads' = lenReads + 1
    /\ UNCHANGED <<buf, retval, engineVars, inits, queries, granted,
                   bufReads, astgenCalls, directCalls, active, arg>>

\* The read-based input source: len = read(0, buf, ...) writes the buffer.
ReadLenIntoBuf ==
    /\ pc = "readlen"
    /\ pc' = "call"
    /\ len' = IntOfU32(afl_fuzz_len)
    /\ lenReads' = lenReads + 1
    /\ \E b \in [Cells -> Bytes] : shm' = b
    /\ UNCHANGED <<buf, retval, afl_fuzz_ptr, afl_fuzz_len, answer, grant,
                   inits, queries, granted, bufReads, astgenCalls,
                   directCalls, active, arg>>

\* line 26: int len = __AFL_FUZZ_TESTCASE_LEN.
ReadLen ==
    /\ pc = "readlen"
    /\ pc' = "call"
    /\ len' = IntOfU32(afl_fuzz_len)
    /\ lenReads' = lenReads + 1
    /\ UNCHANGED <<buf, retval, engineVars, inits, queries, granted,
                   bufReads, astgenCalls, directCalls, active, arg>>

\* A length check before the call: an empty or negative input is skipped.
CallSubjectUnlessEmpty ==
    /\ pc = "call"
    /\ IF len <= 0
       THEN /\ pc' = "loop"
            /\ UNCHANGED <<arg, astgenCalls, active>>
       ELSE /\ pc' = "in_call"
            /\ arg' = [fn |-> "zig_fuzz_test_astgen", buf |-> buf,
                       len |-> SsizeOfInt(len), bytes |-> shm]
            /\ astgenCalls' = astgenCalls + 1
            /\ active' = active + 1
    /\ UNCHANGED <<mainVars, engineVars, inits, queries, granted, bufReads,
                   lenReads, directCalls>>

\* The call handed to another thread: main goes on to the next loop query.
CallSubjectAsync ==
    /\ pc = "call"
    /\ pc' = "loop"
    /\ arg' = [fn |-> "zig_fuzz_test_astgen", buf |-> buf,
               len |-> SsizeOfInt(len), bytes |-> shm]
    /\ astgenCalls' = astgenCalls + 1
    /\ active' = active + 1
    /\ UNCHANGED <<mainVars, engineVars, inits, queries, granted, bufReads,
                   lenReads, directCalls>>

\* The other declared entry point called instead.
CallSubjectDirect ==
    /\ pc = "call"
    /\ pc' = "in_call"
    /\ arg' = [fn |-> "zig_fuzz_test_direct", buf |-> buf,
               len |-> SsizeOfInt(len), bytes |-> shm]
    /\ directCalls' = directCalls + 1
    /\ active' = active + 1
    /\ UNCHANGED <<mainVars, engineVars, inits, queries, granted, bufReads,
                   lenReads, astgenCalls>>

\* line 27: zig_fuzz_test_astgen(buf, len): main is inside the subject.
CallSubject ==
    /\ pc = "call"
    /\ pc' = "in_call"
    /\ arg' = [fn |-> "zig_fuzz_test_astgen", buf |-> buf,
               len |-> SsizeOfInt(len), bytes |-> shm]
    /\ astgenCalls' = astgenCalls + 1
    /\ active' = active + 1
    /\ UNCHANGED <<mainVars, engineVars, inits, queries, granted, bufReads,
                   lenReads, directCalls>>

\* The subject returns: control is back in main at the loop condition.
SubjectReturns ==
    /\ pc = "in_call"
    /\ pc' = "loop"
    /\ active' = active - 1
    /\ arg' = NoArg
    /\ UNCHANGED <<mainVars, engineVars, countVars>>

\* The subject does not return (a crash or a hang found by the fuzzer): the
\* process ends inside the call.
SubjectAborts ==
    /\ pc = "in_call"
    /\ pc' = "aborted"
    /\ UNCHANGED <<mainVars, engineVars, countVars, active, arg>>

\* line 30: return 0.
Return0 ==
    /\ pc = "ret"
    /\ pc' = "done"
    /\ retval' = 0
    /\ UNCHANGED <<buf, len, engineVars, countVars, active, arg>>

Next ==
    \/ AflInit
    \/ GetBuf
    \/ AflLoopEnter
    \/ AflLoopTrue
    \/ AflLoopFalse
    \/ WhileEnter
    \/ WhileExit
    \/ ReadLen
    \/ CallSubject
    \/ SubjectReturns
    \/ SubjectAborts
    \/ Return0

Spec == Init /\ [][Next]_vars

\* main's own steps are taken when they can be: the process is scheduled.
MainStep ==
    GetBuf \/ AflLoopEnter \/ WhileEnter \/ WhileExit \/ ReadLen
        \/ CallSubject \/ Return0

FairSpec == Spec /\ WF_vars(MainStep)

\* ------------------------------------------------------------------ claims
Calls == astgenCalls + directCalls

\* C1: pass-through fidelity.  Whenever the test subject is running on an
\* input whose engine-reported length is at most 4096, it was invoked with the
\* engine's buffer address, with exactly the length the engine reported for
\* this iteration, and the buffer holds exactly the bytes the engine supplied
\* for this iteration, both when the call was made and now.
C1_PassThrough ==
    (pc = "in_call" /\ ~U32Less(U32OfNat(4096), grant.len)) =>
        /\ arg.buf = afl_fuzz_ptr
        /\ arg.len = SsizeOfU32(grant.len)
        /\ arg.bytes = grant.bytes
        /\ shm = grant.bytes

C1_Witness ==
    /\ pc = "in_call"
    /\ granted >= 2
    /\ grant.len = U32OfNat(4096)
    /\ arg.len = SsizeOfU32(U32OfNat(4096))
    /\ arg.bytes[0] = 255

\* C2: the handshake happens exactly once, before the first loop query and
\* before any invocation of the test subject, and never again.
C2_InitOnce ==
    /\ inits <= 1
    /\ (pc = "init" => inits = 0 /\ queries = 0 /\ Calls = 0)
    /\ (pc # "init" => inits = 1)
    /\ (queries > 0 \/ Calls > 0 => inits = 1)

C2_Witness == pc = "in_call" /\ granted >= 2 /\ queries >= 2 /\ inits = 1

\* C3: the test subject is invoked exactly once per granted iteration: the
\* number of invocations never exceeds the number of true answers, is one
\* behind it only between a true answer and the call it leads to, and equals
\* it at every loop query and once main has left the loop.
C3_OncePerIteration ==
    /\ Calls <= granted
    /\ granted <= Calls + 1
    /\ (pc \in {"init", "getbuf", "loop", "in_loop", "in_call", "aborted",
                "ret", "done"} => Calls = granted)
    /\ (pc \in {"readlen", "call"} => granted = Calls + 1)
    /\ (pc = "test" =>
            granted = Calls + (IF answer = "true" THEN 1 ELSE 0))

C3_Witness == pc = "done" /\ granted >= 2 /\ Calls = granted

\* C4: main is past the loop only after the engine answered false; from a
\* false answer on there is no further loop query and no further invocation;
\* main returns 0; and a false answer leads to main having returned 0.
C4_LoopUntilExhausted ==
    /\ [](pc \in {"ret", "done"} => answer = "false")
    /\ [](pc = "done" <=> retval = 0)
    /\ [][answer = "false" =>
            /\ answer' = "false"
            /\ astgenCalls' = astgenCalls
            /\ directCalls' = directCalls
            /\ queries' = queries]_vars
    /\ ((answer = "false") ~> (pc = "done" /\ retval = 0))

C4_Witness ==
    pc = "done" /\ retval = 0 /\ answer = "false" /\ astgenCalls >= 2

\* C5: the length is passed through uninspected.  The invocation in progress
\* received the 32 bits the engine reported, whatever they are; at the call
\* statement the length has been read exactly once for this iteration and the
\* call is still to be made; back at the loop query every granted iteration
\* has had its one length read and its one call.
C5_LengthUninspected ==
    /\ (pc = "in_call" =>
            /\ arg.len.lo = grant.len
            /\ lenReads = granted
            /\ astgenCalls = granted)
    /\ (pc = "call" => lenReads = granted /\ astgenCalls = granted - 1)
    /\ (pc \in {"loop", "in_loop"} =>
            lenReads = granted /\ astgenCalls = granted)

C5_Witness ==
    /\ pc = "in_call"
    /\ len < 0
    /\ SsizeNegative(arg.len)
    /\ astgenCalls = granted
    /\ granted >= 2

\* C6: iterations are strictly sequential: at most one invocation is in
\* progress, exactly while main is inside the call, and none is in progress
\* while a loop query is.
C6_Sequential ==
    /\ active \in {0, 1}
    /\ (active = 1 <=> pc \in {"in_call", "aborted"})
    /\ (pc = "in_loop" => active = 0 /\ arg = NoArg)

C6_Witness == pc = "in_loop" /\ astgenCalls >= 2 /\ active = 0

\* C7: the buffer changes only in the step in which the engine grants an
\* iteration, with no invocation in progress; no other step writes it, in
\* particular none between the read of the length and the return of the call.
C7_SingleWriter ==
    [][/\ (shm' # shm =>
              pc = "in_loop" /\ active = 0 /\ pc' = "test" /\ answer' = "true")
       /\ (pc \in {"readlen", "call", "in_call"} => shm' = shm)]_vars

C7_Witness ==
    /\ pc = "loop"
    /\ astgenCalls >= 2
    /\ shm = grant.bytes
    /\ shm[0] = 255

\* C8: every invocation is of zig_fuzz_test_astgen; zig_fuzz_test_direct is
\* never invoked.
C8_OnlyAstgen ==
    /\ directCalls = 0
    /\ (arg # NoArg => arg.fn = "zig_fuzz_test_astgen")
    /\ (pc \in {"in_call", "aborted"} => arg.fn = "zig_fuzz_test_astgen")

C8_Witness ==
    pc = "in_call" /\ arg.fn = "zig_fuzz_test_astgen" /\ astgenCalls >= 2

\* C9: the length conversion.  For an engine-reported length below 2^31 the
\* subject receives exactly that length, which is not negative; for a length
\* of 2^31 or more the int is the length minus 2^32 (its bits are the
\* reported ones and it is negative) and the subject receives that negative
\* value: the 64-bit word with all high bits set and the reported low bits.
C9_LengthConversion ==
    pc = "in_call" =>
        IF grant.len.hi < Half \div 2
        THEN /\ arg.len = SsizeOfU32(grant.len)
             /\ ~SsizeNegative(arg.len)
             /\ len >= 0
             /\ len \div Half = grant.len.hi
             /\ len % Half = grant.len.lo
        ELSE /\ len < 0
             /\ (len \div Half) + Half = grant.len.hi
             /\ len % Half = grant.len.lo
             /\ SsizeNegative(arg.len)
             /\ arg.len = [hi |-> -1, lo |-> grant.len]

C9_Witness ==
    /\ pc = "in_call"
    /\ grant.len = MkU32(Half \div 2, 0)
    /\ len = -(2^30) - 2^30
    /\ SsizeNegative(arg.len)

\* C10: the buffer address is read exactly once, after the handshake and
\* before the first loop query, and every invocation receives that address;
\* the length is read once in every granted iteration, before its call.
C10_BufOnceLenFresh ==
    /\ bufReads <= 1
    /\ (pc \in {"init", "getbuf"} => bufReads = 0 /\ queries = 0)
    /\ (pc = "getbuf" => inits = 1)
    /\ (pc \notin {"init", "getbuf"} =>
            bufReads = 1 /\ buf = afl_fuzz_ptr /\ buf \in Addrs)
    /\ (pc \in {"in_call", "aborted"} => arg.buf = buf /\ lenReads = granted)
    /\ (pc = "readlen" => lenReads = granted - 1)
    /\ lenReads <= granted

C10_Witness ==
    /\ pc = "in_call"
    /\ granted >= 2
    /\ lenReads = granted
    /\ bufReads = 1
    /\ arg.buf = MaxAddr

====
